---- MODULE Spec2Model ----
(***************************************************************************)
(* Model of onnx_cntk_inference.py: a top-to-bottom script that loads an   *)
(* ONNX graph, preprocesses one image, evaluates the graph, takes the      *)
(* argmax of the scores and prints the label found in a pickled table.     *)
(* One action per statement of the script (line 25 is two calls: open and  *)
(* pickle.load).  The three files the script reads are the inputs.         *)
(***************************************************************************)
EXTENDS Integers, Sequences, FiniteSets, TLC

\* ------------------------------------------------------------------ bounds
\* The script resizes to 224 x 224; the model keeps the two sides apart and small.
ResizeWidth == 3
ResizeHeight == 2
\* Largest number of classes a model file's output or a label table has.
MaxClasses == 3
\* How many times the script is run on the same files.
MaxRuns == 2
\* How many times the probe applies the channel reorder.
MaxReorders == 2

\* --------------------------------------------------------- program constants
Bias == 128
ChannelOrder == <<2, 1, 0>>
RollAxisArg == 2
ModelPath == "vgg16.onnx"
ImagePath == "Siberian_Husky_bi-eyed_Flickr.jpg"
LabelsPath == "imagenet1000_clsid_to_human.pkl"
LoadedMessage == "Loaded vgg16.onnx!"

\* Optional values: <<>> is an unbound name, <<v>> a bound one.
None == <<>>
Some(v) == <<v>>

\* ------------------------------------------------------------ numpy arrays
\* An array is [shape, data]: data maps every 0-based index tuple to a value.
RECURSIVE Indices(_)
Indices(shape) ==
    IF shape = <<>> THEN {<<>>}
    ELSE {<<i>> \o t : i \in 0..(shape[1] - 1), t \in Indices(Tail(shape))}

NDim(a) == Len(a.shape)

\* np.asarray(img, dtype=np.float32): (height, width, bands), or (height, width)
\* for a single-band image; PIL addresses pixels as (x, y).
BandsOf(mode) == CASE mode = "L" -> 1 [] mode = "RGB" -> 3 [] mode = "RGBA" -> 4

AsArray(im) ==
    LET w == im.size[1]
        h == im.size[2]
        b == BandsOf(im.mode)
        shp == IF b = 1 THEN <<h, w>> ELSE <<h, w, b>>
    IN  [shape |-> shp,
         data  |-> [ix \in Indices(shp) |->
                       im.pixels[<<ix[2], ix[1]>>][IF b = 1 THEN 1 ELSE ix[3] + 1]]]

\* a - k, elementwise.
SubScalar(a, k) == [shape |-> a.shape, data |-> [ix \in Indices(a.shape) |-> a.data[ix] - k]]

\* a[..., order]: picks the entries of the last axis in the given order.
TakeLastOk(a, order) ==
    /\ NDim(a) > 0
    /\ \A j \in 1..Len(order) : order[j] < a.shape[NDim(a)]

TakeLast(a, order) ==
    LET n == NDim(a)
        shp == [j \in 1..n |-> IF j = n THEN Len(order) ELSE a.shape[j]]
    IN  [shape |-> shp,
         data  |-> [ix \in Indices(shp) |->
                       a.data[[j \in 1..n |-> IF j = n THEN order[ix[n] + 1] ELSE ix[j]]]]]

ChannelRotate(a) == TakeLast(a, <<1, 2, 0>>)

ChannelReorder(a) == TakeLast(a, ChannelOrder)

\* np.rollaxis(a, 2): axis 2 becomes axis 0; an array of fewer than 3 axes is an error.
RollAxisOk(a) == NDim(a) > RollAxisArg

\* a.T: every axis reversed.
Transpose(a) ==
    LET n == NDim(a)
        shp == [j \in 1..n |-> a.shape[n + 1 - j]]
    IN  [shape |-> shp,
         data  |-> [ix \in Indices(shp) |-> a.data[[j \in 1..n |-> ix[n + 1 - j]]]]]

RollAxis(a) ==
    LET n == NDim(a)
        k == RollAxisArg + 1
        src(j) == IF j = 1 THEN k ELSE IF j <= k THEN j - 1 ELSE j
        shp == [j \in 1..n |-> a.shape[src(j)]]
        back(ix) == [j \in 1..n |-> IF j = k THEN ix[1] ELSE IF j < k THEN ix[j + 1] ELSE ix[j]]
    IN  [shape |-> shp, data |-> [ix \in Indices(shp) |-> a.data[back(ix)]]]

\* np.squeeze: drops every axis of length 1.
RECURSIVE DropOnes(_)
DropOnes(s) ==
    IF s = <<>> THEN <<>>
    ELSE IF s[1] = 1 THEN DropOnes(Tail(s)) ELSE <<s[1]>> \o DropOnes(Tail(s))

\* The result of z.eval on a batch of one: shape (1, N); squeezed, its values in order.
Squeeze(scores) ==
    LET shp == DropOnes(<<1, Len(scores)>>)
    IN  [shape |-> shp,
         data  |-> [ix \in Indices(shp) |-> scores[IF shp = <<>> THEN 1 ELSE ix[1] + 1]]]

\* The values of an array of at most one axis, in order.
Flat(a) ==
    IF a.shape = <<>> THEN <<a.data[<<>>]>>
    ELSE [i \in 1..a.shape[1] |-> a.data[<<i - 1>>]]

\* np.argmax over a non-empty sequence: a left-to-right scan that keeps the
\* first largest value; the result is 0-based.
RECURSIVE ArgMaxScan(_, _, _)
ArgMaxScan(v, i, best) ==
    IF i > Len(v) THEN best - 1
    ELSE ArgMaxScan(v, i + 1, IF v[i] > v[best] THEN i ELSE best)

ArgMaxLast(v) == CHOOSE i \in 0..(Len(v) - 1) :
    /\ \A j \in 1..Len(v) : v[j] <= v[i + 1]
    /\ \A j \in (i + 2)..Len(v) : v[j] < v[i + 1]

ArgMaxOneBased(v) == ArgMaxScan(v, 2, 1) + 1

ArgMax(v) == ArgMaxScan(v, 2, 1)

\* print(n) of a non-negative integer: its decimal digits.
Digit == <<"0", "1", "2", "3", "4", "5", "6", "7", "8", "9">>

RECURSIVE Str(_)
Str(n) == IF n < 10 THEN Digit[n + 1] ELSE Str(n \div 10) \o Digit[(n % 10) + 1]

\* ------------------------------------------------------------------ inputs
\* What the three files hold.  Scores are in hundredths.
ScoreVals == {5, 10, 90}
ExampleScores == <<10, 90, 5>>
LabelNames == <<"a", "b", "c", "d", "e", "f">>

\* The input shape of the graph the script is written for (3, 224, 224).
ExpectedShape == <<3, ResizeHeight, ResizeWidth>>

NoModel(st) == [status |-> st, input_shape |-> <<>>, scores |-> <<>>]
GoodModel(s) == [status |-> "ok", input_shape |-> ExpectedShape, scores |-> s]
OtherShapeModel == [status |-> "ok", input_shape |-> <<1, ResizeHeight, ResizeWidth>>,
                    scores |-> ExampleScores]

ScoreVectors == UNION {[1..n -> ScoreVals] : n \in 0..MaxClasses}

ModelFiles ==
    {NoModel("missing"), NoModel("invalid"), OtherShapeModel} \cup {GoodModel(s) : s \in ScoreVectors}

FewModelFiles == {NoModel("missing"), GoodModel(ExampleScores)}

\* Pixels at the resized resolution, addressed (x, y), each a tuple of band values.
Coords == {<<x, y>> : x \in 0..(ResizeWidth - 1), y \in 0..(ResizeHeight - 1)}
Flat3(x, y) == 3 * (y * ResizeWidth + x)
ZeroPixels == [p \in Coords |-> <<0, 0, 0>>]
CodedPixels == [p \in Coords |-> <<Flat3(p[1], p[2]) + 1, Flat3(p[1], p[2]) + 2, Flat3(p[1], p[2]) + 3>>]
OneHotPixels(q, c) == [p \in Coords |-> [b \in 1..3 |-> IF p = q /\ b = c THEN 255 ELSE 0]]
GrayPixels == [p \in Coords |-> <<Flat3(p[1], p[2]) + 1>>]
AlphaPixels == [p \in Coords |-> <<Flat3(p[1], p[2]) + 1, Flat3(p[1], p[2]) + 2, Flat3(p[1], p[2]) + 3, 255>>]

\* An image file: the size it was stored at and what decoding and resampling
\* to the resized resolution yields.
NoImage(st) == [status |-> st, mode |-> "RGB", size |-> <<0, 0>>, resampled |-> <<>>]
ImageOf(mode, size, px) == [status |-> "ok", mode |-> mode, size |-> size, resampled |-> px]
StoredSizes == {<<ResizeWidth, ResizeHeight>>, <<5, 4>>}

FewImageFiles ==
    {NoImage("missing"), NoImage("truncated"),
     ImageOf("RGB", <<ResizeWidth, ResizeHeight>>, ZeroPixels),
     ImageOf("RGB", <<5, 4>>, CodedPixels),
     ImageOf("L", <<5, 4>>, GrayPixels),
     ImageOf("RGBA", <<5, 4>>, AlphaPixels)}

ImageFiles ==
    FewImageFiles
    \cup {ImageOf("RGB", sz, CodedPixels) : sz \in StoredSizes}
    \cup {ImageOf("RGB", <<5, 4>>, OneHotPixels(q, c)) : q \in Coords, c \in 1..3}

\* A label file: a pickled dict keyed 0..K-1.
NoLabels(st) == [status |-> st, table |-> <<>>]
Forward(k) == [i \in 0..(k - 1) |-> LabelNames[i + 1]]
Backward(k) == [i \in 0..(k - 1) |-> LabelNames[k - i]]
LabelFiles ==
    {NoLabels("missing"), NoLabels("corrupt")}
    \cup {[status |-> "ok", table |-> t] : t \in {Forward(k) : k \in 0..MaxClasses}
                                              \cup {Backward(k) : k \in 0..MaxClasses}}

FewLabelFiles == {NoLabels("missing"), [status |-> "ok", table |-> Forward(MaxClasses)]}

\* ------------------------------------------------------------------- state
VARIABLES
    modelFile, imageFile, labelFile,   \* the files on disk
    pc,            \* the statement about to run, or "done" / "crashed"
    z, img, rgb_img, bgr_img, img_data, predictions, top_class, labels_dict,
    out,           \* the lines printed to standard output
    open_files,    \* the files the process holds open
    trace,         \* the statements executed so far in this run
    failed,        \* the statement that raised, if any
    run, prev,     \* which run this is; what the run before printed and predicted
    probe, reorders \* the reorder probe: an array and how often it was reordered

files == <<modelFile, imageFile, labelFile>>
names == <<z, img, rgb_img, bgr_img, img_data, predictions, top_class, labels_dict>>
probes == <<probe, reorders>>
vars == <<files, pc, names, out, open_files, trace, failed, run, prev, probes>>

Fresh ==
    /\ pc = "L15"
    /\ z = None /\ img = None /\ rgb_img = None /\ bgr_img = None /\ img_data = None
    /\ predictions = None /\ top_class = None /\ labels_dict = None
    /\ out = <<>>
    /\ open_files = {}
    /\ trace = <<>>
    /\ failed = None

InitWith(models, images, labels) ==
    /\ modelFile \in models
    /\ imageFile \in images
    /\ labelFile \in labels
    /\ Fresh
    /\ run = 1
    /\ prev = None
    /\ probe = None
    /\ reorders = 0

Init == InitWith(ModelFiles, FewImageFiles, LabelFiles)

\* ----------------------------------------------------------------- actions
\* Nothing in the script catches an exception: a statement that raises ends the
\* process, which gives up every file it holds.
Raise(stmt) ==
    /\ pc' = "crashed"
    /\ failed' = Some(stmt)
    /\ open_files' = {}

\* The statement ran to its end: control moves to the next one.
Goto(next) ==
    /\ pc' = next
    /\ failed' = failed

Step(stmt) ==
    /\ pc = stmt
    /\ trace' = Append(trace, stmt)
    /\ UNCHANGED <<files, run, prev, probes>>

\* The same statement with its failure passed over: the script goes on with an empty graph.
LoadModelOrPass ==
    /\ Step("L15")
    /\ z' = Some([input_shape |-> modelFile.input_shape, scores |-> modelFile.scores])
    /\ Goto("L16")
    /\ UNCHANGED <<img, rgb_img, bgr_img, img_data, predictions, top_class, labels_dict, out,
                   open_files>>

\* z = C.Function.load("vgg16.onnx", ...)
LoadModel ==
    /\ Step("L15")
    /\ IF modelFile.status = "ok"
       THEN /\ z' = Some([input_shape |-> modelFile.input_shape, scores |-> modelFile.scores])
            /\ Goto("L16")
            /\ UNCHANGED open_files
       ELSE /\ Raise("L15")
            /\ UNCHANGED z
    /\ UNCHANGED <<img, rgb_img, bgr_img, img_data, predictions, top_class, labels_dict, out>>

\* print("Loaded vgg16.onnx!")
PrintLoaded ==
    /\ Step("L16")
    /\ out' = Append(out, LoadedMessage)
    /\ Goto("L17")
    /\ UNCHANGED <<names, open_files>>

\* The same statement, tried a second time when it raises.
OpenImageRetry ==
    /\ pc = "L17"
    /\ trace' = Append(trace, "L17")
    /\ UNCHANGED <<files, run, prev, probes>>
    /\ IF imageFile.status # "missing"
       THEN /\ img' = Some([size |-> imageFile.size, mode |-> imageFile.mode, pixels |-> <<>>])
            /\ open_files' = open_files \cup {ImagePath}
            /\ Goto("L18")
       ELSE /\ IF failed = None
               THEN pc' = "L17" /\ failed' = Some("L17") /\ UNCHANGED open_files
               ELSE Raise("L17")
            /\ UNCHANGED img
    /\ UNCHANGED <<z, rgb_img, bgr_img, img_data, predictions, top_class, labels_dict, out>>

\* img = Image.open(...): reads the header and keeps the file open for the decode.
OpenImage ==
    /\ Step("L17")
    /\ IF imageFile.status # "missing"
       THEN /\ img' = Some([size |-> imageFile.size, mode |-> imageFile.mode, pixels |-> <<>>])
            /\ open_files' = open_files \cup {ImagePath}
            /\ Goto("L18")
       ELSE /\ Raise("L17")
            /\ UNCHANGED img
    /\ UNCHANGED <<z, rgb_img, bgr_img, img_data, predictions, top_class, labels_dict, out>>

\* img = img.resize((224,224)): decodes, resamples, and rebinds img to the new
\* image; the opened image is dropped and its file with it.
Resize ==
    /\ Step("L18")
    /\ IF imageFile.status = "ok"
       THEN /\ img' = Some([size |-> <<ResizeWidth, ResizeHeight>>, mode |-> img[1].mode,
                            pixels |-> imageFile.resampled])
            /\ open_files' = open_files \ {ImagePath}
            /\ Goto("L19")
       ELSE /\ Raise("L18")
            /\ UNCHANGED img
    /\ UNCHANGED <<z, rgb_img, bgr_img, img_data, predictions, top_class, labels_dict, out>>

\* rgb_img = np.asarray(img, dtype=np.float32) - 128
ToFloat ==
    /\ Step("L19")
    /\ rgb_img' = Some(SubScalar(AsArray(img[1]), Bias))
    /\ Goto("L20")
    /\ UNCHANGED <<z, img, bgr_img, img_data, predictions, top_class, labels_dict, out, open_files>>

\* bgr_img = rgb_img[..., [2,1,0]]
Reorder ==
    /\ Step("L20")
    /\ IF TakeLastOk(rgb_img[1], ChannelOrder)
       THEN /\ bgr_img' = Some(ChannelReorder(rgb_img[1]))
            /\ Goto("L21")
            /\ UNCHANGED open_files
       ELSE /\ Raise("L20")
            /\ UNCHANGED bgr_img
    /\ UNCHANGED <<z, img, rgb_img, img_data, predictions, top_class, labels_dict, out>>

\* img_data = np.ascontiguousarray(np.rollaxis(bgr_img,2)); ascontiguousarray
\* changes the memory layout only, which an array as modelled here does not have.
ToChannelFirst ==
    /\ Step("L21")
    /\ IF RollAxisOk(bgr_img[1])
       THEN /\ img_data' = Some(RollAxis(bgr_img[1]))
            /\ Goto("L22")
            /\ UNCHANGED open_files
       ELSE /\ Raise("L21")
            /\ UNCHANGED img_data
    /\ UNCHANGED <<z, img, rgb_img, bgr_img, predictions, top_class, labels_dict, out>>

\* predictions = np.squeeze(z.eval({z.arguments[0]:[img_data]})): the graph
\* rejects an input whose shape is not its first argument's.
Evaluate ==
    /\ Step("L22")
    /\ IF img_data[1].shape = z[1].input_shape
       THEN /\ predictions' = Some(Squeeze(z[1].scores))
            /\ Goto("L23")
            /\ UNCHANGED open_files
       ELSE /\ Raise("L22")
            /\ UNCHANGED predictions
    /\ UNCHANGED <<z, img, rgb_img, bgr_img, img_data, top_class, labels_dict, out>>

\* The same statement, with a tie between largest scores broken either way.
TopClassAnyTie ==
    /\ Step("L23")
    /\ IF Len(Flat(predictions[1])) > 0
       THEN /\ \E i \in 1..Len(Flat(predictions[1])) :
                 /\ \A j \in 1..Len(Flat(predictions[1])) :
                        Flat(predictions[1])[j] <= Flat(predictions[1])[i]
                 /\ top_class' = Some(i - 1)
            /\ Goto("L24")
            /\ UNCHANGED open_files
       ELSE /\ Raise("L23")
            /\ UNCHANGED top_class
    /\ UNCHANGED <<z, img, rgb_img, bgr_img, img_data, predictions, labels_dict, out>>

\* top_class = np.argmax(predictions): an empty array is an error.
TopClass ==
    /\ Step("L23")
    /\ IF Len(Flat(predictions[1])) > 0
       THEN /\ top_class' = Some(ArgMax(Flat(predictions[1])))
            /\ Goto("L24")
            /\ UNCHANGED open_files
       ELSE /\ Raise("L23")
            /\ UNCHANGED top_class
    /\ UNCHANGED <<z, img, rgb_img, bgr_img, img_data, predictions, labels_dict, out>>

\* The script without its intermediate print.
SkipPrintTopClass ==
    /\ Step("L24")
    /\ Goto("L25")
    /\ UNCHANGED <<names, out, open_files>>

\* print(top_class)
PrintTopClass ==
    /\ Step("L24")
    /\ out' = Append(out, Str(top_class[1]))
    /\ Goto("L25")
    /\ UNCHANGED <<names, open_files>>

\* open("imagenet1000_clsid_to_human.pkl", "rb"), the argument of pickle.load
OpenLabels ==
    /\ Step("L25")
    /\ IF labelFile.status # "missing"
       THEN /\ open_files' = open_files \cup {LabelsPath}
            /\ Goto("L25load")
       ELSE Raise("L25")
    /\ UNCHANGED <<names, out>>

\* The same call, with the file object kept alive after the load.
LoadLabelsKeepOpen ==
    /\ Step("L25load")
    /\ IF labelFile.status = "ok"
       THEN /\ labels_dict' = Some(labelFile.table)
            /\ UNCHANGED open_files
            /\ Goto("L26")
       ELSE /\ Raise("L25load")
            /\ UNCHANGED labels_dict
    /\ UNCHANGED <<z, img, rgb_img, bgr_img, img_data, predictions, top_class, out>>

\* labels_dict = pickle.load(<the file>): the file object is the call's argument
\* only, so nothing refers to it once the call returns and it is closed then.
LoadLabels ==
    /\ Step("L25load")
    /\ IF labelFile.status = "ok"
       THEN /\ labels_dict' = Some(labelFile.table)
            /\ open_files' = open_files \ {LabelsPath}
            /\ Goto("L26")
       ELSE /\ Raise("L25load")
            /\ UNCHANGED labels_dict
    /\ UNCHANGED <<z, img, rgb_img, bgr_img, img_data, predictions, top_class, out>>

\* The same statement with a default for a missing key, as labels_dict.get would give.
PrintLabelOrDefault ==
    /\ Step("L26")
    /\ out' = Append(out, IF top_class[1] \in DOMAIN labels_dict[1]
                          THEN labels_dict[1][top_class[1]] ELSE "unknown")
    /\ Goto("done")
    /\ UNCHANGED <<names, open_files>>

\* print(labels_dict[top_class]): a key the dict lacks is an error.
PrintLabel ==
    /\ Step("L26")
    /\ IF top_class[1] \in DOMAIN labels_dict[1]
       THEN /\ out' = Append(out, labels_dict[1][top_class[1]])
            /\ Goto("done")
            /\ UNCHANGED open_files
       ELSE /\ Raise("L26")
            /\ UNCHANGED out
    /\ UNCHANGED names

\* The script is run again, as a new process, on the same files.
Summary == [out |-> out, top_class |-> top_class, failed |-> failed]

RunAgain ==
    /\ pc \in {"done", "crashed"}
    /\ run < MaxRuns
    /\ run' = run + 1
    /\ prev' = Some(Summary)
    /\ pc' = "L15"
    /\ z' = None /\ img' = None /\ rgb_img' = None /\ bgr_img' = None /\ img_data' = None
    /\ predictions' = None /\ top_class' = None /\ labels_dict' = None
    /\ out' = <<>>
    /\ open_files' = {}
    /\ trace' = <<>>
    /\ failed' = None
    /\ probe' = None
    /\ reorders' = 0
    /\ UNCHANGED files

\* rgb_img[..., [2,1,0]] applied to its own result, on the side.
ReorderProbe ==
    /\ rgb_img # None
    /\ TakeLastOk(rgb_img[1], ChannelOrder)
    /\ reorders < MaxReorders
    /\ probe' = Some(ChannelReorder(IF reorders = 0 THEN rgb_img[1] ELSE probe[1]))
    /\ reorders' = reorders + 1
    /\ UNCHANGED <<files, pc, names, out, open_files, trace, failed, run, prev>>

Script ==
    \/ LoadModel \/ PrintLoaded \/ OpenImage \/ Resize \/ ToFloat \/ Reorder
    \/ ToChannelFirst \/ Evaluate \/ TopClass \/ PrintTopClass \/ OpenLabels
    \/ LoadLabels \/ PrintLabel

Next == Script \/ RunAgain

Spec == Init /\ [][Next]_vars

\* The same script over every image file and few model and label files, with the probe.
ImageInit == InitWith(FewModelFiles, ImageFiles, FewLabelFiles)

ImageNext == Script \/ RunAgain \/ ReorderProbe

ImageSpec == ImageInit /\ [][ImageNext]_vars

\* ------------------------------------------------------------------ claims
StatementOrder ==
    <<"L15", "L16", "L17", "L18", "L19", "L20", "L21", "L22", "L23", "L24", "L25", "L25load", "L26">>
Ran(stmt) == \E i \in 1..Len(trace) : trace[i] = stmt
Ended == pc \in {"done", "crashed"}

\* C1: when the model file cannot be loaded the run ends at the load statement:
\* nothing is printed, the image file is never opened, no later statement has run.
C1_LoadFailsFast ==
    modelFile.status # "ok" =>
        /\ pc \in {"L15", "crashed"}
        /\ trace \in {<<>>, <<"L15">>}
        /\ out = <<>>
        /\ names = <<None, None, None, None, None, None, None, None>>
        /\ open_files = {}
        /\ pc = "crashed" => failed = Some("L15")

C1_Witness == modelFile.status = "invalid" /\ pc = "crashed" /\ failed = Some("L15") /\ out = <<>>

\* C2: the statements run in source order, each at most once; a statement that
\* raises is the last one of the run, and the run is then over.
C2_FailStop ==
    /\ Len(trace) <= Len(StatementOrder)
    /\ \A i \in 1..Len(trace) : trace[i] = StatementOrder[i]
    /\ failed # None => pc = "crashed" /\ trace # <<>> /\ trace[Len(trace)] = failed[1]
    /\ pc = "crashed" => failed # None
    /\ pc = "done" => trace = StatementOrder
    /\ ~Ended => pc = StatementOrder[Len(trace) + 1]

C2_Witness == pc = "crashed" /\ failed = Some("L17") /\ trace = <<"L15", "L16", "L17">>

\* C3: a run in which nothing fails prints the confirmation, the predicted index
\* and the label, in that order; the confirmation comes after the model load and
\* before the image is opened; the label is the table's entry at the printed index.
C3_OutputOrder ==
    /\ LoadedMessage = "Loaded " \o ModelPath \o "!"
    /\ pc = "done" =>
          out = <<LoadedMessage, Str(top_class[1]), labelFile.table[top_class[1]]>>
    /\ Len(out) <= 3
    /\ Len(out) >= 1 => out[1] = LoadedMessage /\ z # None
    /\ Ran("L17") => Len(out) >= 1
    /\ Len(out) = 1 /\ ~Ended => ~Ran("L24")
    /\ Len(out) >= 2 => top_class # None /\ out[2] = Str(top_class[1])
    /\ Len(out) = 3 => pc = "done"

C3_Witness == pc = "done" /\ Len(out) = 3 /\ out[2] = "2" /\ out[3] = "a"

\* C4: for a 3-band resized image P of height H and width W the tensor has shape
\* (3, H, W) and T[c][h][w] = P[h][w][2 - c] - 128; an all-zero image gives -128
\* everywhere.  P[h][w] is the pixel at x = w, y = h.
C4_Preprocess ==
    (img_data # None /\ img[1].mode = "RGB") =>
        LET W == img[1].size[1]
            H == img[1].size[2]
            T == img_data[1]
        IN  /\ T.shape = <<3, H, W>>
            /\ DOMAIN T.data = {<<c, h, w>> : c \in 0..2, h \in 0..(H - 1), w \in 0..(W - 1)}
            /\ \A c \in 0..2, h \in 0..(H - 1), w \in 0..(W - 1) :
                   T.data[<<c, h, w>>] = img[1].pixels[<<w, h>>][(2 - c) + 1] - 128
            /\ img[1].pixels = ZeroPixels => \A ix \in DOMAIN T.data : T.data[ix] = -128

C4_Witness ==
    /\ img_data # None
    /\ img[1].pixels = CodedPixels
    /\ img_data[1].data[<<0, 1, 2>>] = CodedPixels[<<2, 1>>][3] - 128

\* C5: the predicted index is the index of a largest score, the lowest such index
\* on a tie; the scores (0.10, 0.90, 0.05) give 1, and "b" against {0: "a", 1: "b"}.
C5_ArgmaxLowest ==
    top_class # None =>
        LET v == Flat(predictions[1])
            i == top_class[1]
        IN  /\ i \in 0..(Len(v) - 1)
            /\ \A j \in 1..Len(v) : v[j] <= v[i + 1]
            /\ \A j \in 1..i : v[j] < v[i + 1]
            /\ v = ExampleScores => i = 1
            /\ (v = ExampleScores /\ pc = "done" /\ labels_dict[1] = Forward(2)) => out[3] = "b"

C5_Witness ==
    /\ top_class = Some(1)
    /\ Flat(predictions[1]) = <<5, 90, 90>>

\* C6: the predicted index is in [0, N-1] for N scores, and when the label table is
\* keyed 0..N-1 it is a key of the table and the lookup does not fail.
C6_IndexInTable ==
    top_class # None =>
        LET N == Len(Flat(predictions[1]))
        IN  /\ top_class[1] \in 0..(N - 1)
            /\ (labelFile.status = "ok" /\ DOMAIN labelFile.table = 0..(N - 1)) =>
                   /\ top_class[1] \in DOMAIN labelFile.table
                   /\ failed # Some("L26")
                   /\ Ended => pc = "done"

C6_Witness ==
    /\ pc = "done"
    /\ Len(Flat(predictions[1])) = MaxClasses
    /\ DOMAIN labels_dict[1] = 0..(MaxClasses - 1)
    /\ top_class = Some(MaxClasses - 1)

\* C7: on a 3-channel grid the reorder moves no value to another position (it
\* reverses the channels of each pixel) and applying it twice gives the grid back.
C7_ReorderInvolution ==
    (reorders > 0 /\ NDim(rgb_img[1]) = 3 /\ rgb_img[1].shape[3] = 3) =>
        /\ probe[1].shape = rgb_img[1].shape
        /\ reorders % 2 = 0 => probe[1] = rgb_img[1]
        /\ reorders % 2 = 1 =>
              \A ix \in Indices(rgb_img[1].shape) :
                  probe[1].data[ix] = rgb_img[1].data[<<ix[1], ix[2], 2 - ix[3]>>]
        /\ bgr_img # None /\ reorders % 2 = 1 => probe = bgr_img

C7_Witness ==
    /\ reorders = 2
    /\ imageFile.resampled = CodedPixels
    /\ probe = rgb_img

C9_FilesReleased ==
    /\ labels_dict # None => LabelsPath \notin open_files
    /\ Ended => open_files = {}
    /\ ImagePath \in open_files => pc = "L18"
    /\ LabelsPath \in open_files => pc = "L25load"
    /\ ModelPath \notin open_files

C9_Witness == pc = "L26" /\ labels_dict # None /\ Ran("L25load") /\ open_files = {}

\* C10 as stated: whenever the label file is missing or corrupt the run ends
\* with exactly the confirmation and the index printed.
C10_Original ==
    (labelFile.status # "ok" /\ pc = "crashed") => Len(out) = 2

\* C10, amended: in a run that reaches the label-file load, the scores were
\* evaluated and the index printed before it; if then the file is missing or
\* corrupt, or the index is not a key, the run ends in that failure with the
\* confirmation and the index printed and no label.
C10_LabelFailure ==
    Ran("L25") =>
        /\ predictions # None /\ top_class # None
        /\ Len(out) >= 2 /\ out[1] = LoadedMessage /\ out[2] = Str(top_class[1])
        /\ labels_dict # None => Ran("L24")
        /\ (labelFile.status # "ok" \/ top_class[1] \notin DOMAIN labelFile.table) =>
              /\ Len(out) = 2
              /\ pc # "done"
              /\ pc = "crashed" =>
                    failed = Some(CASE labelFile.status = "missing" -> "L25"
                                    [] labelFile.status = "corrupt" -> "L25load"
                                    [] OTHER -> "L26")

C10_Witness ==
    /\ pc = "crashed" /\ failed = Some("L26")
    /\ out = <<LoadedMessage, "2">>
    /\ labels_dict = Some(Forward(2))

====
